---- MODULE Spec2Model ----
(***************************************************************************)
(* GameHub API proxy worker (src/src/index.ts): one fetch handler that     *)
(* answers CORS preflights, swaps the placeholder credential "fake-token"  *)
(* for a real one, dispatches on (path, method) and proxies to upstreams.  *)
(*                                                                         *)
(* Data representation.                                                    *)
(*   text     a JS string: a sequence of chunks (TLA+ strings); the        *)
(*            sentinel "fake-token" is one chunk, so includes / replace /  *)
(*            === are decided on chunks.                                   *)
(*   value    a JSON / JS value, tagged: <<"undefined">>, <<"null">>,      *)
(*            <<"num", n>>, <<"str", text>>, <<"list", seq>>,              *)
(*            <<"obj", fields>>, <<"hex", text, case>> (a digest string).  *)
(*   fields   a JS object: a sequence of <<key, value>> pairs with         *)
(*            distinct keys, in insertion order.                           *)
(*   body     <<"none">> (no body / empty text), <<"raw", chunk>> (text    *)
(*            that is not JSON) or <<"json", value>> (the JSON text of     *)
(*            value).                                                      *)
(*   headers  a Headers object: a function from lower-case header names    *)
(*            to the sequence of values appended under that name (what     *)
(*            get() joins with ", ").                                      *)
(***************************************************************************)
EXTENDS Integers, Sequences, FiniteSets, TLC

VARIABLES
    inbox,            \* inbound requests the runtime has not delivered yet
    pc,               \* position of the request-handling task in fetch()
    request,          \* the inbound request (parameter `request`, line 37)
    bodyText,         \* line 58
    realToken,        \* line 84
    credPath,         \* how token resolution went for this request
    modifiedRequest,  \* line 56; what line 170 hands to the routes
    route,            \* the route whose condition matched
    fetches,          \* the subrequests fetch() issued for this request
    response,         \* the Response returned
    thrown,           \* message of the error the catch (line 471) caught
    did,              \* the steps this request has executed
    cache,            \* caches.default, the entry under /token-cached
    puts,             \* cache.put promises handed to ctx.waitUntil
    upstream,         \* the reply to the route's subrequest
    served,           \* completed requests: what came in, what went out
    sigParams,        \* argument of generateSignature
    sigResult,        \* its latest result
    sigFirst          \* its result on the first call

pipeVars ==
    <<inbox, pc, request, bodyText, realToken, credPath, modifiedRequest,
      route, fetches, response, thrown, did, cache, puts, upstream, served>>

sigVars == <<sigParams, sigResult, sigFirst>>

vars ==
    <<inbox, pc, request, bodyText, realToken, credPath, modifiedRequest,
      route, fetches, response, thrown, did, cache, puts, upstream, served,
      sigParams, sigResult, sigFirst>>

----------------------------------------------------------------------------
(* Bounds *)

MaxItems == 3        \* longest manifest list an upstream returns
MaxPage == 3         \* largest page number a client asks for
MaxPageSize == 2     \* largest page_size a client asks for
MaxFields == 3       \* most fields of an object handed to generateSignature

----------------------------------------------------------------------------
(* JS values *)

Undefined == <<"undefined">>
Null == <<"null">>
Num(n) == <<"num", n>>
Str(t) == <<"str", t>>
List(items) == <<"list", items>>
Obj(fields) == <<"obj", fields>>

T(chunk) == <<chunk>>
S(chunk) == Str(<<chunk>>)

IsObj(v) == v[1] = "obj"
IsList(v) == v[1] = "list"
IsNum(v) == v[1] = "num"
IsStr(v) == v[1] = "str"

\* JS truthiness (the operand of !, ||, &&, if)
Truthy(v) ==
    CASE v[1] = "undefined" -> FALSE
      [] v[1] = "null" -> FALSE
      [] v[1] = "num" -> v[2] # 0
      [] v[1] = "str" -> v[2] # <<>>
      [] OTHER -> TRUE

\* a || b
OrElse(a, b) == IF Truthy(a) THEN a ELSE b

RemoveAt(s, i) == SubSeq(s, 1, i - 1) \o SubSeq(s, i + 1, Len(s))

HasKey(fields, k) == \E i \in 1..Len(fields) : fields[i][1] = k

\* obj[k]
GetField(fields, k) ==
    IF HasKey(fields, k)
    THEN fields[CHOOSE i \in 1..Len(fields) : fields[i][1] = k][2]
    ELSE Undefined

\* obj[k] = v : in place when the key exists, else appended
SetField(fields, k, v) ==
    IF HasKey(fields, k)
    THEN [i \in 1..Len(fields) |->
            IF fields[i][1] = k THEN <<k, v>> ELSE fields[i]]
    ELSE Append(fields, <<k, v>>)

\* delete obj[k]
DeleteField(fields, k) == SelectSeq(fields, LAMBDA f : f[1] # k)

\* v.k for a value v that is an object (undefined otherwise)
Prop(v, k) == IF IsObj(v) THEN GetField(v[2], k) ELSE Undefined

\* Object.keys(obj)
ObjectKeys(fields) == [i \in 1..Len(fields) |-> fields[i][1]]

\* { ...a, ...b }
RECURSIVE Spread(_, _)
Spread(a, b) ==
    IF b = <<>> THEN a
    ELSE Spread(SetField(a, b[1][1], b[1][2]), Tail(b))

\* `${v}` : the string a template literal renders a value as
Template(v) ==
    CASE v[1] = "str" -> v[2]
      [] v[1] = "num" -> <<ToString(v[2])>>
      [] v[1] = "hex" -> <<"hex">> \o v[2]
      [] v[1] = "obj" -> <<"[object Object]">>
      [] OTHER -> <<v[1]>>

\* text.includes(chunk)
Includes(text, chunk) == \E i \in 1..Len(text) : text[i] = chunk

\* text.replace(chunk, by) : the first occurrence only
Replace(text, chunk, by) ==
    IF Includes(text, chunk)
    THEN LET i == CHOOSE i \in 1..Len(text) :
                    /\ text[i] = chunk
                    /\ \A j \in 1..(i - 1) : text[j] # chunk
         IN SubSeq(text, 1, i - 1) \o by \o SubSeq(text, i + 1, Len(text))
    ELSE text

\* JSON.stringify drops the properties whose value is undefined
StripUndefined(fields) == SelectSeq(fields, LAMBDA f : f[2] # Undefined)

\* JSON.stringify(v)
Stringify(v) == <<"json", IF IsObj(v) THEN Obj(StripUndefined(v[2])) ELSE v>>

BodyNone == <<"none">>
Raw(chunk) == <<"raw", chunk>>
Json(v) == <<"json", v>>

\* JSON.parse succeeds on the text
Parses(body) == body[1] = "json"

\* JSON.parse(text)
Parse(body) == body[2]

SENTINEL == "fake-token"

\* text.includes('fake-token') on a body text: some chunk of the raw text,
\* some key or some string value of the JSON object, or some string item of
\* the JSON array, is the sentinel
BodyIncludesSentinel(body) ==
    CASE body[1] = "none" -> FALSE
      [] body[1] = "raw" -> body[2] = SENTINEL
      [] IsObj(body[2]) ->
           \E i \in 1..Len(body[2][2]) :
              \/ body[2][2][i][1] = SENTINEL
              \/ /\ IsStr(body[2][2][i][2])
                 /\ Includes(body[2][2][i][2][2], SENTINEL)
      [] IsList(body[2]) ->
           \E i \in 1..Len(body[2][2]) :
              /\ IsStr(body[2][2][i])
              /\ Includes(body[2][2][i][2], SENTINEL)
      [] OTHER -> FALSE

----------------------------------------------------------------------------
(* generateSignature, lines 13-21 *)

GAMEHUB_SECRET_KEY == "all-egg-shell-y7ZatUDk"

\* every property name in the model, in the order Array.prototype.sort()
\* puts them (UTF-16 code units: upper case before lower case)
KeyOrder ==
    <<"Zone", "game_type", "gpu_device_name", "gpu_vendor", "id", "page",
      "page_size", "sign", "source", "time", "token", "type">>

KeyRank(k) == CHOOSE i \in 1..Len(KeyOrder) : KeyOrder[i] = k

\* keys.sort()
RECURSIVE Sort(_)
Sort(keys) ==
    IF keys = <<>> THEN <<>>
    ELSE LET i == CHOOSE i \in 1..Len(keys) :
                    \A j \in 1..Len(keys) : KeyRank(keys[i]) <= KeyRank(keys[j])
         IN <<keys[i]>> \o Sort(RemoveAt(keys, i))

\* pairs.join('&')
RECURSIVE Join(_)
Join(texts) ==
    IF texts = <<>> THEN <<>>
    ELSE IF Len(texts) = 1 THEN texts[1]
    ELSE texts[1] \o <<"&">> \o Join(Tail(texts))

\* md5() of ./md5.js : a digest of the text, as a hex string
md5(text) == <<"hex", text, "md5">>

\* hex.toLowerCase()
toLowerCase(hex) == <<"hex", hex[2], "lower">>

generateSignatureUnfiltered(params) ==
    LET sortedKeys == Sort(ObjectKeys(params))
        paramString ==
            Join([i \in 1..Len(sortedKeys) |->
                    <<sortedKeys[i], "=">> \o Template(GetField(params, sortedKeys[i]))])
        signString == paramString \o <<"&", GAMEHUB_SECRET_KEY>>
    IN toLowerCase(md5(signString))

generateSignature(params) ==
    LET sortedKeys ==
            Sort(SelectSeq(ObjectKeys(params), LAMBDA k : k # "sign"))
        paramString ==
            Join([i \in 1..Len(sortedKeys) |->
                    <<sortedKeys[i], "=">> \o Template(GetField(params, sortedKeys[i]))])
        signString == paramString \o <<"&", GAMEHUB_SECRET_KEY>>
    IN toLowerCase(md5(signString))

----------------------------------------------------------------------------
(* Headers objects *)

\* the lower-case form of the header names the worker writes
HeaderLower(name) ==
    CASE name = "Content-Type" -> "content-type"
      [] name = "Cache-Control" -> "cache-control"
      [] name = "Authorization" -> "authorization"
      [] name = "Access-Control-Allow-Origin" -> "access-control-allow-origin"
      [] name = "Access-Control-Allow-Methods" -> "access-control-allow-methods"
      [] name = "Access-Control-Allow-Headers" -> "access-control-allow-headers"
      [] name = "X-Worker-Auth" -> "x-worker-auth"
      [] OTHER -> name

NoHeaders == [n \in {} |-> <<>>]

\* headers.has(name)
HeadersHas(h, name) == HeaderLower(name) \in DOMAIN h

\* values.join(', ')
RECURSIVE JoinComma(_)
JoinComma(texts) ==
    IF texts = <<>> THEN <<>>
    ELSE IF Len(texts) = 1 THEN texts[1]
    ELSE texts[1] \o <<", ">> \o JoinComma(Tail(texts))

\* headers.get(name), for a header that is present
HeadersGet(h, name) == JoinComma(h[HeaderLower(name)])

\* headers.set(name, value)
HeadersSet(h, name, value) ==
    [n \in DOMAIN h \cup {HeaderLower(name)} |->
        IF n = HeaderLower(name) THEN <<value>> ELSE h[n]]

\* headers.append(name, value)
HeadersAppend(h, name, value) ==
    [n \in DOMAIN h \cup {HeaderLower(name)} |->
        IF n # HeaderLower(name) THEN h[n]
        ELSE IF n \in DOMAIN h THEN Append(h[n], value) ELSE <<value>>]

\* new Headers(init) for a plain object init: every own property of the
\* object is appended, under its name in lower case
RECURSIVE Fill(_, _)
Fill(h, fields) ==
    IF fields = <<>> THEN h
    ELSE Fill(HeadersAppend(h, fields[1][1], fields[1][2]), Tail(fields))

\* Object.fromEntries(headers): one property per header, named in lower
\* case, holding the combined value
RECURSIVE FromEntriesOf(_, _)
FromEntriesOf(h, names) ==
    IF names = {} THEN <<>>
    ELSE LET n == CHOOSE n \in names : TRUE
         IN <<<<n, JoinComma(h[n])>>>> \o FromEntriesOf(h, names \ {n})

FromEntries(h) == FromEntriesOf(h, DOMAIN h)

\* line 41
corsHeaders ==
    << <<"Access-Control-Allow-Origin", T("*")>>,
       <<"Access-Control-Allow-Methods", T("GET, POST, OPTIONS")>>,
       <<"Access-Control-Allow-Headers", T("Content-Type")>> >>

\* { 'Content-Type': 'application/json', ...corsHeaders }
jsonHeaders == Spread(<< <<"Content-Type", T("application/json")>> >>, corsHeaders)

\* new Response(body, { status, headers })
Response(status, init, body) ==
    [status |-> status, headers |-> Fill(NoHeaders, init), body |-> body]

NoResponse == [status |-> 0, headers |-> NoHeaders, body |-> BodyNone]

----------------------------------------------------------------------------
(* Constants of the worker *)

GITHUB_BASE == "https://raw.githubusercontent.com/gamehublite/gamehub_api/main"
NEWS_AGGREGATOR_URL == "https://gamehub-news-aggregator.secureflex.workers.dev"
METADATA_URL == "https://landscape-api.vgabc.com"
TOKEN_REFRESHER_URL == "env.TOKEN_REFRESHER_URL"

\* line 24
TYPE_TO_MANIFEST(type) ==
    CASE type = 1 -> "/components/box64_manifest"
      [] type = 2 -> "/components/drivers_manifest"
      [] type = 3 -> "/components/dxvk_manifest"
      [] type = 4 -> "/components/vkd3d_manifest"
      [] type = 5 -> "/components/games_manifest"
      [] type = 6 -> "/components/libraries_manifest"
      [] type = 7 -> "/components/steam_manifest"
      [] OTHER -> ""

\* the (path, method) conditions of lines 176-393
RouteMethod(path) ==
    CASE path = "/card/getGameDetail" -> "POST"
      [] path = "/card/getNewsList" -> "POST"
      [] path = "/card/getNewsGuideDetail" -> "POST"
      [] path = "/simulator/executeScript" -> "POST"
      [] path = "/base/getBaseInfo" -> "POST"
      [] path = "/cloud/game/check_user_timer" -> "POST"
      [] path = "/game/getDnsIpPool" -> "POST"
      [] path = "/game/getSteamHost" -> "GET"
      [] path = "/card/getGameIcon" -> "POST"
      [] path = "/simulator/v2/getComponentList" -> "POST"
      [] OTHER -> "none"

FALLBACK == "fallback"

MatchRoute(req) ==
    IF RouteMethod(req.path) = req.method THEN req.path ELSE FALLBACK

\* the three routes that fetch a fixed file of the static repository and
\* pass its JSON through (lines 307-359)
StaticJsonRoutes ==
    {"/base/getBaseInfo", "/cloud/game/check_user_timer", "/game/getDnsIpPool"}

StaticFailure(path) ==
    CASE path = "/base/getBaseInfo" -> "Failed to fetch base info"
      [] path = "/cloud/game/check_user_timer" -> "Failed to check timer"
      [] path = "/game/getDnsIpPool" -> "Failed to fetch DNS pool"
      [] path = "/game/getSteamHost" -> "Failed to fetch Steam hosts"
      [] OTHER -> "Failed to fetch manifest"

----------------------------------------------------------------------------
(* Requests, subrequests and results of a step *)

Req(method, path, headers, body) ==
    [method |-> method, path |-> path, headers |-> headers, body |-> body]

NoRequest == Req("", "", NoHeaders, BodyNone)

\* fetch(url, { method, headers, body, cf })
Fetch(url, method, headers, body, cf) ==
    [url |-> url, method |-> method, headers |-> headers, body |-> body,
     cf |-> cf]

NoFetch == Fetch(<<>>, "", NoHeaders, BodyNone, FALSE)

\* what a stretch of the handler ends in: a Response returned, a subrequest
\* awaited, a request handed on, or an error thrown to the catch of line 471
Responds(resp) ==
    [kind |-> "respond", response |-> resp, fetch |-> NoFetch,
     request |-> NoRequest, message |-> ""]

Awaits(f) ==
    [kind |-> "fetch", response |-> NoResponse, fetch |-> f,
     request |-> NoRequest, message |-> ""]

HandsOn(req) ==
    [kind |-> "request", response |-> NoResponse, fetch |-> NoFetch,
     request |-> req, message |-> ""]

Throws(message) ==
    [kind |-> "throw", response |-> NoResponse, fetch |-> NoFetch,
     request |-> NoRequest, message |-> message]

\* the message of the SyntaxError JSON.parse / .json() raises on the text
JsonError(body) ==
    IF body = BodyNone THEN "Unexpected end of JSON input"
    ELSE "Unexpected token in JSON"

FETCH_FAILED == "fetch failed"

\* response.ok
Ok(reply) == reply.status >= 200 /\ reply.status <= 299

ErrorResponseBare(message) ==
    Response(500, << <<"Content-Type", T("application/json")>> >>,
             Stringify(Obj(<< <<"code", Num(500)>>,
                              <<"msg", Str(<<"Error: ", message>>)>> >>)))

\* lines 471-476
ErrorResponse(message) ==
    Response(500, jsonHeaders,
             Stringify(Obj(<< <<"code", Num(500)>>,
                              <<"msg", Str(<<"Error: ", message>>)>> >>)))

\* line 49
PreflightResponse == Response(200, corsHeaders, BodyNone)

----------------------------------------------------------------------------
(* Token interception, lines 56-170 *)

AuthHit(req) ==
    /\ HeadersHas(req.headers, "Authorization")
    /\ Includes(HeadersGet(req.headers, "Authorization"), SENTINEL)

TokenHit(req) ==
    /\ HeadersHas(req.headers, "token")
    /\ HeadersGet(req.headers, "token") = <<SENTINEL>>

\* line 70: the body is read only for a POST with a JSON content type
ReadsBody(req) ==
    /\ req.method = "POST"
    /\ HeadersHas(req.headers, "Content-Type")
    /\ Includes(HeadersGet(req.headers, "Content-Type"), "application/json")

\* line 71
ClonedText(req) == IF ReadsBody(req) THEN req.body ELSE BodyNone

\* lines 57-75
shouldReplaceToken(req) ==
    \/ AuthHit(req)
    \/ TokenHit(req)
    \/ BodyIncludesSentinel(ClonedText(req))

SubstituteDroppingBody(req, text, tok) ==
    HandsOn(Req(req.method, req.path, req.headers, BodyNone))

SubstituteStaleSign(req, text, tok) ==
    IF ~Truthy(tok) THEN HandsOn(req)
    ELSE IF text # BodyNone /\ BodyIncludesSentinel(text)
    THEN IF ~Parses(text) THEN Throws(JsonError(text))
         ELSE IF IsList(Parse(text))
         THEN HandsOn(Req(req.method, req.path, req.headers, Stringify(Parse(text))))
         ELSE LET signed == SetField(Parse(text)[2], "sign",
                                     generateSignature(Parse(text)[2]))
              IN HandsOn(Req(req.method, req.path, req.headers,
                             Stringify(Obj(SetField(signed, "token", tok)))))
    ELSE HandsOn(Req(req.method, req.path, req.headers, text))

\* lines 120-166: the request that replaces the inbound one
Substitute(req, text, tok) ==
    IF ~Truthy(tok) THEN HandsOn(req)
    ELSE
      LET h1 == IF AuthHit(req)
                THEN HeadersSet(req.headers, "Authorization",
                         Replace(HeadersGet(req.headers, "Authorization"),
                                 SENTINEL, Template(tok)))
                ELSE req.headers
          newHeaders == IF TokenHit(req)
                        THEN HeadersSet(h1, "token", Template(tok))
                        ELSE h1
      IN IF text # BodyNone /\ BodyIncludesSentinel(text)
         THEN IF ~Parses(text) THEN Throws(JsonError(text))
              ELSE IF IsList(Parse(text))
              \* token and sign become named properties of the array, which
              \* JSON.stringify does not serialize
              THEN HandsOn(Req(req.method, req.path, newHeaders,
                               Stringify(Parse(text))))
              ELSE LET bodyJson == SetField(Parse(text)[2], "token", tok)
                       signed == SetField(bodyJson, "sign",
                                          generateSignature(bodyJson))
                   IN HandsOn(Req(req.method, req.path, newHeaders,
                                  Stringify(Obj(signed))))
         ELSE IF text # BodyNone
         THEN HandsOn(Req(req.method, req.path, newHeaders, text))
         ELSE HandsOn(Req(req.method, req.path, newHeaders, BodyNone))

\* line 95
TokenFetch ==
    Fetch(<<TOKEN_REFRESHER_URL, "/token">>, "GET",
          Fill(NoHeaders, << <<"X-Worker-Auth", T("gamehub-internal-token-fetch-2025")>> >>),
          BodyNone, FALSE)

----------------------------------------------------------------------------
(* The routes, lines 175-470: each up to its subrequest, and from the     *)
(* reply of the subrequest to the Response                                 *)

Envelope(code, msg, data) ==
    Obj(<< <<"code", Num(code)>>, <<"msg", S(msg)>>, <<"time", Str(<<>>)>>,
           <<"data", data>> >>)

Failure(status, msg) ==
    Response(status, jsonHeaders,
             Stringify(Obj(<< <<"code", Num(status)>>, <<"msg", S(msg)>> >>)))

\* new Response(JSON.stringify(await reply.json()), { headers: json + cors })
PassJson(reply) ==
    IF Parses(reply.body)
    THEN Responds(Response(200, jsonHeaders, Stringify(Parse(reply.body))))
    ELSE Throws(JsonError(reply.body))

\* lines 176-184
GameDetailStart(req) ==
    Awaits(Fetch(<<METADATA_URL, "/card/getGameDetail">>, "POST", req.headers,
                 req.body, FALSE))

\* lines 186-197
GameDetailReply(reply) ==
    IF ~Parses(reply.body) THEN Throws(JsonError(reply.body))
    ELSE
      LET responseData == Parse(reply.body)
          data == Prop(responseData, "data")
          stripped ==
              IF Truthy(data) /\ IsObj(data)
              THEN Obj(SetField(responseData[2], "data",
                       Obj(DeleteField(DeleteField(data[2], "recommend_game"),
                                       "card_line_data"))))
              ELSE responseData
      IN Responds(Response(200, jsonHeaders, Stringify(stripped)))

\* lines 201-209
NewsListStart(req) ==
    IF ~Parses(req.body) THEN Throws(JsonError(req.body))
    ELSE
      LET body == Parse(req.body)
          page == OrElse(Prop(body, "page"), Num(1))
          pageSize == OrElse(Prop(body, "page_size"), Num(4))
      IN Awaits(Fetch(<<NEWS_AGGREGATOR_URL, "/api/news/list?page=">>
                          \o Template(page) \o <<"&page_size=">>
                          \o Template(pageSize),
                      "GET", NoHeaders, BodyNone, FALSE))

\* lines 211-225
NewsListReply(reply) ==
    IF ~Ok(reply)
    THEN Responds(Response(200, jsonHeaders,
             Stringify(Envelope(500, "Failed to fetch news", List(<<>>)))))
    ELSE PassJson(reply)

\* lines 229-248
NewsDetailStart(req) ==
    IF ~Parses(req.body) THEN Throws(JsonError(req.body))
    ELSE
      LET newsId == Prop(Parse(req.body), "id")
      IN IF ~Truthy(newsId)
         THEN Responds(Response(400, jsonHeaders,
                  Stringify(Envelope(400, "Missing id parameter", Null))))
         ELSE Awaits(Fetch(<<NEWS_AGGREGATOR_URL, "/api/news/detail/">>
                               \o Template(newsId),
                           "GET", NoHeaders, BodyNone, FALSE))

\* lines 250-265
NewsDetailReply(reply) ==
    IF ~Ok(reply)
    THEN Responds(Response(404, jsonHeaders,
             Stringify(Envelope(404, "News not found", Null))))
    ELSE PassJson(reply)

CLIENTPARAMS ==
    "5.1.0|0|en|Generic|1920*1080|app|app|generic|||||||||com.app|Generic|generic"

\* lines 274-285
sanitizedBody(body) ==
    Obj(<< <<"gpu_vendor", Prop(body, "gpu_vendor")>>,
           <<"gpu_version", Num(0)>>,
           <<"gpu_device_name", S("Generic Device")>>,
           <<"game_type", OrElse(Prop(body, "game_type"), Num(2))>>,
           <<"token", Prop(body, "token")>>,
           <<"game_id", S("0")>>,
           <<"sign", Prop(body, "sign")>>,
           <<"time", Prop(body, "time")>>,
           <<"clientparams", S(CLIENTPARAMS)>>,
           <<"gpu_system_driver_version", Num(0)>> >>)

\* lines 269-296
ExecuteScriptStart(req) ==
    IF ~Parses(req.body) THEN Throws(JsonError(req.body))
    ELSE Awaits(Fetch(<<METADATA_URL, "/simulator/executeScript">>, "POST",
                      Fill(NoHeaders, << <<"Content-Type", T("application/json")>> >>),
                      Stringify(sanitizedBody(Parse(req.body))), FALSE))

\* lines 298-303
ExecuteScriptReply(reply) == PassJson(reply)

\* lines 307-309, 325-327, 343-345
StaticJsonStart(path) ==
    Awaits(Fetch(<<GITHUB_BASE, path>>, "GET", NoHeaders, BodyNone, FALSE))

StaticJsonReplyUnchecked(path, reply) == PassJson(reply)

\* lines 311-321, 329-339, 347-358
StaticJsonReply(path, reply) ==
    IF ~Ok(reply) THEN Responds(Failure(500, StaticFailure(path)))
    ELSE PassJson(reply)

\* lines 362-364
SteamHostStart ==
    Awaits(Fetch(<<GITHUB_BASE, "/game/getSteamHost/index">>, "GET",
                 NoHeaders, BodyNone, FALSE))

\* lines 366-377
SteamHostReply(reply) ==
    IF ~Ok(reply)
    THEN Responds(Failure(500, StaticFailure("/game/getSteamHost")))
    ELSE Responds(Response(200,
             Spread(<< <<"Content-Type", T("text/plain")>> >>, corsHeaders),
             reply.body))

\* lines 381-389
GameIcon(now) ==
    Responds(Response(200, jsonHeaders,
        Stringify(Obj(<< <<"code", Num(200)>>, <<"msg", Str(<<>>)>>,
                         <<"time", Str(<<ToString(now)>>)>>,
                         <<"data", List(<<>>)>> >>))))

\* line 400
ValidType(type) == Truthy(type) /\ IsNum(type) /\ TYPE_TO_MANIFEST(type[2]) # ""

\* lines 393-409
ComponentListStart(req) ==
    IF ~Parses(req.body) THEN Throws(JsonError(req.body))
    ELSE
      LET type == Prop(Parse(req.body), "type")
      IN IF ~ValidType(type)
         THEN Responds(Failure(400, "Invalid type parameter"))
         ELSE Awaits(Fetch(<<GITHUB_BASE, TYPE_TO_MANIFEST(type[2])>>, "GET",
                           NoHeaders, BodyNone, FALSE))

Min(a, b) == IF a < b THEN a ELSE b
Max(a, b) == IF a > b THEN a ELSE b

\* Array.prototype.slice(start, end): a negative index counts from the end
slice(items, start, end) ==
    LET len == Len(items)
        k == IF start < 0 THEN Max(len + start, 0) ELSE Min(start, len)
        final == IF end < 0 THEN Max(len + end, 0) ELSE Min(end, len)
    IN SubSeq(items, k + 1, final)

\* lines 421-424
RenameComponents(manifestData) ==
    LET data == Prop(manifestData, "data")
    IN IF Truthy(data) /\ Truthy(Prop(data, "components"))
       THEN Obj(SetField(manifestData[2], "data",
                Obj(DeleteField(SetField(data[2], "list",
                                         Prop(data, "components")),
                                "components"))))
       ELSE manifestData

PaginateLengthTotal(manifestData, page, pageSize) ==
    LET data == Prop(manifestData, "data")
    IN IF Truthy(data) /\ Truthy(Prop(data, "list"))
       THEN LET allItems == Prop(data, "list")[2]
                startIndex == (page[2] - 1) * pageSize[2]
                endIndex == startIndex + pageSize[2]
            IN Obj(SetField(manifestData[2], "data",
                   Obj(SetField(SetField(SetField(SetField(data[2],
                           "list", List(slice(allItems, startIndex, endIndex))),
                           "page", page),
                           "pageSize", pageSize),
                           "total", Num(Len(allItems))))))
       ELSE manifestData

\* lines 427-441
Paginate(manifestData, page, pageSize) ==
    LET data == Prop(manifestData, "data")
    IN IF Truthy(data) /\ Truthy(Prop(data, "list"))
       THEN LET allItems == Prop(data, "list")[2]
                total == OrElse(Prop(data, "total"), Num(Len(allItems)))
                startIndex == (page[2] - 1) * pageSize[2]
                endIndex == startIndex + pageSize[2]
                paginatedItems == slice(allItems, startIndex, endIndex)
            IN Obj(SetField(manifestData[2], "data",
                   Obj(SetField(SetField(SetField(SetField(data[2],
                           "list", List(paginatedItems)),
                           "page", page),
                           "pageSize", pageSize),
                           "total", total))))
       ELSE manifestData

\* lines 396-398
PageOf(req) == OrElse(Prop(Parse(req.body), "page"), Num(1))
PageSizeOf(req) == OrElse(Prop(Parse(req.body), "page_size"), Num(10))

\* lines 411-447
ComponentListReply(req, reply) ==
    IF ~Ok(reply) THEN Responds(Failure(500, "Failed to fetch manifest"))
    ELSE IF ~Parses(reply.body) THEN Throws(JsonError(reply.body))
    ELSE Responds(Response(200, jsonHeaders,
             Stringify(Paginate(RenameComponents(Parse(reply.body)),
                                PageOf(req), PageSizeOf(req)))))

\* lines 451-457
FallbackStart(req) ==
    Awaits(Fetch(<<GITHUB_BASE, req.path>>, "GET", NoHeaders, BodyNone, TRUE))

\* lines 460-470: the init object is the upstream's headers (named in lower
\* case by the Headers iterator), then corsHeaders and Cache-Control as
\* further properties; the Response appends every property
FallbackReply(reply) ==
    Responds(Response(reply.status,
        SetField(Spread(FromEntries(reply.headers), corsHeaders),
                 "Cache-Control", T("public, max-age=300")),
        reply.body))

\* the route's code up to its first subrequest
HandlerStart(rt, req, now) ==
    CASE rt = "/card/getGameDetail" -> GameDetailStart(req)
      [] rt = "/card/getNewsList" -> NewsListStart(req)
      [] rt = "/card/getNewsGuideDetail" -> NewsDetailStart(req)
      [] rt = "/simulator/executeScript" -> ExecuteScriptStart(req)
      [] rt \in StaticJsonRoutes -> StaticJsonStart(rt)
      [] rt = "/game/getSteamHost" -> SteamHostStart
      [] rt = "/card/getGameIcon" -> GameIcon(now)
      [] rt = "/simulator/v2/getComponentList" -> ComponentListStart(req)
      [] OTHER -> FallbackStart(req)

\* the route's code from the reply of its subrequest
HandlerReply(rt, req, reply) ==
    CASE rt = "/card/getGameDetail" -> GameDetailReply(reply)
      [] rt = "/card/getNewsList" -> NewsListReply(reply)
      [] rt = "/card/getNewsGuideDetail" -> NewsDetailReply(reply)
      [] rt = "/simulator/executeScript" -> ExecuteScriptReply(reply)
      [] rt \in StaticJsonRoutes -> StaticJsonReply(rt, reply)
      [] rt = "/game/getSteamHost" -> SteamHostReply(reply)
      [] rt = "/simulator/v2/getComponentList" -> ComponentListReply(req, reply)
      [] OTHER -> FallbackReply(reply)

----------------------------------------------------------------------------
(* The environment: inbound requests, upstream replies, the clock *)

OptField(k, v) == IF v = Undefined THEN <<>> ELSE << <<k, v>> >>

\* an absent header is written <<>>
MkHeaders(auth, token, ctype) ==
    [n \in (IF auth = <<>> THEN {} ELSE {"authorization"})
           \cup (IF token = <<>> THEN {} ELSE {"token"})
           \cup (IF ctype = <<>> THEN {} ELSE {"content-type"}) |->
        CASE n = "authorization" -> <<auth>>
          [] n = "token" -> <<token>>
          [] OTHER -> <<ctype>>]

AuthChoices == {<<>>, <<"Bearer ", SENTINEL>>}
TokenChoices == {<<>>, <<SENTINEL>>, <<"my-", SENTINEL>>}
CtypeChoices == {<<>>, <<"application/json", "; charset=utf-8">>}

HeaderChoices ==
    {MkHeaders(a, t, c) : a \in AuthChoices, t \in TokenChoices, c \in CtypeChoices}

TokenBody == Json(Obj(<< <<"token", S(SENTINEL)>>, <<"sign", S("old-sign")>> >>))

\* a JSON text that is an array holding the sentinel
ArrayBody == Json(List(<< S(SENTINEL) >>))

CommonBodies ==
    {BodyNone, Raw("garbage"), Raw(SENTINEL), Json(Obj(<<>>)), TokenBody,
     ArrayBody}

NewsListBodies ==
    {Json(Obj(<< <<"page", Num(2)>>, <<"page_size", Num(2)>> >>))}

NewsDetailBodies ==
    {Json(Obj(<< <<"id", Num(5)>> >>)), Json(Obj(<< <<"id", Num(0)>> >>)),
     Json(Obj(<< <<"id", Num(5)>>, <<"token", S(SENTINEL)>> >>)),
     Json(Obj(<< <<"id", Num(5)>>, <<"source", Str(<<"my-", SENTINEL>>)>>,
                 <<"token", S("user-token")>> >>))}

ExecBody(vendor, gameType, token, time, device) ==
    Json(Obj(OptField("gpu_vendor", vendor) \o OptField("game_type", gameType)
             \o OptField("token", token) \o <<<<"sign", S("old-sign")>>>>
             \o OptField("time", time) \o OptField("gpu_device_name", device)))

Devices == {S("Adreno 660"), S("Mali-G78")}

ExecBodies ==
    {ExecBody(v, g, k, t, d) :
        v \in {Undefined, S("Qualcomm")}, g \in {Undefined, Num(1)},
        k \in {S(SENTINEL), S("user-token")}, t \in {Undefined, Num(1730000000)},
        d \in Devices \cup {Undefined}}

ListBody(type, page, pageSize, token) ==
    Json(Obj(OptField("type", type) \o OptField("page", page)
             \o OptField("page_size", pageSize) \o OptField("token", token)))

Types == {Undefined, Num(7), Num(99)}
Pages == {Undefined} \cup {Num(n) : n \in (-1)..MaxPage}
PageSizes == {Undefined} \cup {Num(n) : n \in 0..MaxPageSize}

ListBodies ==
    {ListBody(t, p, z, Undefined) : t \in Types, p \in Pages, z \in PageSizes}
    \cup {ListBody(t, Num(2), Num(1), S(SENTINEL)) : t \in Types}

BodiesFor(path) ==
    CommonBodies \cup
    CASE path = "/card/getNewsList" -> NewsListBodies
      [] path = "/card/getNewsGuideDetail" -> NewsDetailBodies
      [] path = "/simulator/executeScript" -> ExecBodies
      [] path = "/simulator/v2/getComponentList" -> ListBodies
      [] OTHER -> {}

Paths ==
    {"/card/getGameDetail", "/card/getNewsList", "/card/getNewsGuideDetail",
     "/simulator/executeScript", "/base/getBaseInfo",
     "/cloud/game/check_user_timer", "/game/getDnsIpPool",
     "/game/getSteamHost", "/card/getGameIcon",
     "/simulator/v2/getComponentList", "/foo/bar"}

\* a GET request carries no body
Requests ==
    UNION {{Req("POST", p, h, b) : h \in HeaderChoices, b \in BodiesFor(p)}
           \cup {Req("GET", p, h, BodyNone) : h \in HeaderChoices}
           \cup {Req("OPTIONS", p, h, b) : h \in HeaderChoices,
                                           b \in {BodyNone, TokenBody}}
           : p \in Paths}

\* JSON requests to /simulator/executeScript that differ in a device field,
\* in the Authorization header, in the game type, in the token
PairRequests ==
    {Req("POST", "/simulator/executeScript",
         MkHeaders(a, <<>>, <<"application/json", "; charset=utf-8">>),
         ExecBody(S("Qualcomm"), g, k, Num(1730000000), d)) :
        a \in AuthChoices, g \in {Undefined, Num(1)},
        k \in {S(SENTINEL), S("user-token")}, d \in Devices}
    \cup {Req("OPTIONS", "/simulator/executeScript", NoHeaders, BodyNone)}

Clock == {1730000000, 1730000001}

NetError == [net |-> "error", status |-> 0, headers |-> NoHeaders, body |-> BodyNone]

Reply(status, headers, body) ==
    [net |-> "ok", status |-> status, headers |-> headers, body |-> body]

NoReply == [net |-> "", status |-> 0, headers |-> NoHeaders, body |-> BodyNone]

TOKEN_A == S("real-token-A")
TOKEN_B == S("real-token-B")

TokenData(tok) == Obj(OptField("token", tok))

\* what the token refresher answers GET /token with
TokenReplies ==
    {NetError, Reply(503, NoHeaders, Raw("unavailable")),
     Reply(200, NoHeaders, Raw("<html>"))}
    \cup {Reply(200, NoHeaders, Json(TokenData(t))) : t \in {TOKEN_A, TOKEN_B, Undefined}}

CacheMiss == <<"miss">>
CacheHit(body) == <<"hit", body>>

\* what the edge cache may hold when a request arrives: nothing, or what an
\* earlier request put there
CacheStates ==
    {CacheMiss, CacheHit(Json(TokenData(TOKEN_A))), CacheHit(Json(TokenData(Undefined)))}

Item(i) == Obj(<< <<"id", Num(i)>> >>)
Items(n) == [i \in 1..n |-> Item(i)]

Manifest(key, n, total) ==
    Json(Obj(<< <<"code", Num(200)>>,
                <<"data", Obj(<< <<key, List(Items(n))>> >> \o OptField("total", total))>> >>))

ManifestBodies ==
    {Manifest(k, n, t) : k \in {"components", "list"}, n \in 0..MaxItems,
                         t \in {Undefined, Num(0), Num(50)}}
    \cup {Json(Obj(<< <<"code", Num(200)>>,
                      <<"data", Obj(<< <<"components", List(Items(1))>>,
                                       <<"list", List(<<>>)>> >>)>> >>)),
          Json(Obj(<< <<"code", Num(200)>>, <<"data", Obj(<<>>)>> >>)),
          Json(Obj(<< <<"code", Num(200)>> >>)),
          Raw("<html>")}

DetailBodies ==
    {Json(Obj(<< <<"code", Num(200)>>,
                 <<"data", Obj(<< <<"name", S("game")>>,
                                  <<"recommend_game", List(<<S("ad")>>)>>,
                                  <<"card_line_data", List(<<>>)>> >>)>> >>)),
     Json(Obj(<< <<"code", Num(401)>>, <<"msg", S("token invalid")>> >>)),
     Raw("<html>")}

JsonBodies ==
    {Json(Obj(<< <<"code", Num(200)>>, <<"data", List(<<>>)>> >>)), Raw("<html>")}

UpstreamStatuses == {200, 404}

UpstreamHeaderChoices ==
    {[n \in names |->
        CASE n = "cache-control" -> <<T("no-store")>>
          [] n = "access-control-allow-origin" -> <<T("https://example.com")>>
          [] OTHER -> <<T("text/plain")>>] :
     names \in SUBSET {"cache-control", "access-control-allow-origin", "content-type"}}

\* what the upstream of a route answers its subrequest with
RepliesFor(rt) ==
    {NetError} \cup
    CASE rt \in {"/card/getGameDetail", "/simulator/executeScript"} ->
           {Reply(st, NoHeaders, b) : st \in UpstreamStatuses, b \in DetailBodies}
      [] rt = "/simulator/v2/getComponentList" ->
           {Reply(200, NoHeaders, b) : b \in ManifestBodies}
           \cup {Reply(404, NoHeaders, Raw("404: Not Found"))}
      [] rt = "/game/getSteamHost" ->
           {Reply(st, NoHeaders, Raw("hosts")) : st \in UpstreamStatuses}
      [] rt = FALLBACK ->
           {Reply(st, h, b) : st \in UpstreamStatuses, h \in UpstreamHeaderChoices,
                              b \in {Raw("file"), BodyNone}}
      [] OTHER ->
           {Reply(st, NoHeaders, b) : st \in UpstreamStatuses, b \in JsonBodies}

----------------------------------------------------------------------------
(* The request-handling task *)

PerRequestInit(req) ==
    /\ request = req
    /\ bodyText = BodyNone
    /\ realToken = Undefined
    /\ credPath = "none"
    /\ modifiedRequest = req
    /\ route = "none"
    /\ fetches = <<>>
    /\ response = NoResponse
    /\ thrown = ""
    /\ did = {}
    /\ upstream = NoReply

PerRequestReset(req) ==
    /\ request' = req
    /\ bodyText' = BodyNone
    /\ realToken' = Undefined
    /\ credPath' = "none"
    /\ modifiedRequest' = req
    /\ route' = "none"
    /\ fetches' = <<>>
    /\ response' = NoResponse
    /\ thrown' = ""
    /\ did' = {}
    /\ upstream' = NoReply

SigIdle ==
    /\ sigParams = <<>>
    /\ sigResult = generateSignature(<<>>)
    /\ sigFirst = [params |-> <<>>, result |-> generateSignature(<<>>)]

\* one inbound request, against an edge cache in any state it can be in
Init ==
    /\ inbox \in {<<r>> : r \in Requests}
    /\ pc = "idle"
    /\ PerRequestInit(NoRequest)
    /\ cache \in CacheStates
    /\ puts = <<>>
    /\ served = <<>>
    /\ SigIdle

\* two inbound requests to /simulator/executeScript, one after the other
InitPair ==
    /\ inbox \in {<<r1, r2>> : r1 \in PairRequests, r2 \in PairRequests}
    /\ pc = "idle"
    /\ PerRequestInit(NoRequest)
    /\ cache \in CacheStates
    /\ puts = <<>>
    /\ served = <<>>
    /\ SigIdle

\* how a stretch of the handler that ended in r leaves the task: a Response
\* or a thrown error ends it (the catch builds the 500), a subrequest or a
\* rewritten request moves it on to `next`
Ends(r, next) ==
    /\ response' = CASE r.kind = "respond" -> r.response
                     [] r.kind = "throw" -> ErrorResponse(r.message)
                     [] OTHER -> response
    /\ thrown' = IF r.kind = "throw" THEN r.message ELSE thrown
    /\ fetches' = IF r.kind = "fetch" THEN Append(fetches, r.fetch) ELSE fetches
    /\ modifiedRequest' = IF r.kind = "request" THEN r.request ELSE modifiedRequest
    /\ pc' = IF r.kind \in {"respond", "throw"} THEN "done" ELSE next

\* the runtime calls fetch(request, env, ctx)
Receive ==
    /\ pc = "idle"
    /\ inbox # <<>>
    /\ inbox' = Tail(inbox)
    /\ pc' = "preflight"
    /\ PerRequestReset(Head(inbox))
    /\ UNCHANGED <<cache, puts, served, sigVars>>

\* lines 47-50
Preflight ==
    /\ pc = "preflight"
    /\ request.method = "OPTIONS"
    /\ response' = PreflightResponse
    /\ pc' = "done"
    /\ UNCHANGED <<inbox, request, bodyText, realToken, credPath, modifiedRequest,
                   route, fetches, thrown, did, cache, puts, upstream, served,
                   sigVars>>

DetectAnyMethod ==
    /\ pc = "preflight"
    /\ bodyText' = ClonedText(request)
    /\ did' = did \cup (IF ReadsBody(request) THEN {"bodyRead"} ELSE {})
    /\ IF shouldReplaceToken(request)
       THEN credPath' = "detected" /\ pc' = "cacheMatch"
       ELSE credPath' = "clean" /\ pc' = "route"
    /\ UNCHANGED <<inbox, request, realToken, modifiedRequest, route, fetches,
                   response, thrown, cache, puts, upstream, served, sigVars>>

\* lines 56-78
Detect ==
    /\ pc = "preflight"
    /\ request.method # "OPTIONS"
    /\ bodyText' = ClonedText(request)
    /\ did' = did \cup (IF ReadsBody(request) THEN {"bodyRead"} ELSE {})
    /\ IF shouldReplaceToken(request)
       THEN credPath' = "detected" /\ pc' = "cacheMatch"
       ELSE credPath' = "clean" /\ pc' = "route"
    /\ UNCHANGED <<inbox, request, realToken, modifiedRequest, route, fetches,
                   response, thrown, cache, puts, upstream, served, sigVars>>

CacheMatchRefetching ==
    /\ pc = "cacheMatch"
    /\ did' = did \cup {"cacheMatch"}
    /\ credPath' = "miss"
    /\ Ends(Awaits(TokenFetch), "tokenFetch")
    /\ UNCHANGED <<inbox, request, bodyText, realToken, route, cache, puts,
                   upstream, served, sigVars>>

\* lines 80-95 (and 120-170 on a hit)
CacheMatch ==
    /\ pc = "cacheMatch"
    /\ did' = did \cup {"cacheMatch"}
    /\ IF cache # CacheMiss
       THEN LET cachedData == Parse(cache[2])
            IN /\ realToken' = Prop(cachedData, "token")
               /\ credPath' = "hit"
               /\ Ends(Substitute(request, bodyText, Prop(cachedData, "token")), "route")
       ELSE /\ UNCHANGED realToken
            /\ credPath' = "miss"
            /\ Ends(Awaits(TokenFetch), "tokenFetch")
    /\ UNCHANGED <<inbox, request, bodyText, route, cache, puts, upstream, served,
                   sigVars>>

\* lines 95-170: the token refresher has answered
TokenReply ==
    /\ pc = "tokenFetch"
    /\ \E reply \in TokenReplies :
          /\ did' = did \cup {"tokenReply"}
          /\ IF reply.net = "error"
             THEN /\ Ends(Throws(FETCH_FAILED), "route")
                  /\ UNCHANGED <<realToken, credPath, puts>>
             ELSE IF ~Ok(reply)
             THEN /\ Ends(Substitute(request, bodyText, Undefined), "route")
                  /\ credPath' = "miss_fail"
                  /\ UNCHANGED <<realToken, puts>>
             ELSE IF ~Parses(reply.body)
             THEN /\ Ends(Throws(JsonError(reply.body)), "route")
                  /\ UNCHANGED <<realToken, credPath, puts>>
             ELSE LET tokenData == Parse(reply.body)
                  IN /\ realToken' = Prop(tokenData, "token")
                     /\ puts' = Append(puts, Stringify(tokenData))
                     /\ credPath' = "miss_ok"
                     /\ Ends(Substitute(request, bodyText, Prop(tokenData, "token")),
                             "route")
    /\ UNCHANGED <<inbox, request, bodyText, route, cache, upstream, served, sigVars>>

\* lines 170-457: the route is chosen and runs up to its subrequest
Dispatch ==
    /\ pc = "route"
    /\ \E now \in Clock :
          LET rt == MatchRoute(modifiedRequest)
              r == HandlerStart(rt, modifiedRequest, now)
          IN /\ route' = rt
             /\ did' = did \cup {"route"}
             /\ Ends(r, "upstream")
    /\ UNCHANGED <<inbox, request, bodyText, realToken, credPath, cache, puts,
                   upstream, served, sigVars>>

\* the route's upstream has answered, or the subrequest failed
UpstreamReply ==
    /\ pc = "upstream"
    /\ \E reply \in RepliesFor(route) :
          /\ upstream' = reply
          /\ Ends(IF reply.net = "error" THEN Throws(FETCH_FAILED)
                  ELSE HandlerReply(route, modifiedRequest, reply), "done")
    /\ UNCHANGED <<inbox, request, bodyText, realToken, credPath, route, did,
                   cache, puts, served, sigVars>>

\* the Response is handed back to the runtime
Complete ==
    /\ pc = "done"
    /\ served' = Append(served, [request |-> request, cred |-> realToken,
                                 path |-> credPath, fetches |-> fetches])
    /\ pc' = "idle"
    /\ UNCHANGED <<inbox, request, bodyText, realToken, credPath, modifiedRequest,
                   route, fetches, response, thrown, did, cache, puts, upstream,
                   sigVars>>

\* line 113: a cache.put handed to ctx.waitUntil completes
PutComplete ==
    /\ \E i \in 1..Len(puts) :
          /\ cache' = CacheHit(puts[i])
          /\ puts' = RemoveAt(puts, i)
    /\ UNCHANGED <<inbox, pc, request, bodyText, realToken, credPath,
                   modifiedRequest, route, fetches, response, thrown, did,
                   upstream, served, sigVars>>

PutLostFailing ==
    /\ \E i \in 1..Len(puts) : puts' = RemoveAt(puts, i)
    /\ IF pc \in {"idle", "preflight"}
       THEN UNCHANGED <<pc, response, thrown>>
       ELSE /\ pc' = "done"
            /\ response' = ErrorResponse("cache put failed")
            /\ thrown' = "cache put failed"
    /\ UNCHANGED <<inbox, request, bodyText, realToken, credPath,
                   modifiedRequest, route, fetches, did, cache,
                   upstream, served, sigVars>>

\* the put is lost (the isolate is torn down first, or the put rejects)
PutLost ==
    /\ \E i \in 1..Len(puts) : puts' = RemoveAt(puts, i)
    /\ UNCHANGED <<inbox, pc, request, bodyText, realToken, credPath,
                   modifiedRequest, route, fetches, response, thrown, did, cache,
                   upstream, served, sigVars>>

\* the cache substrate drops the entry (max-age=14400 ran out, or eviction)
Evict ==
    /\ cache # CacheMiss
    /\ cache' = CacheMiss
    /\ UNCHANGED <<inbox, pc, request, bodyText, realToken, credPath,
                   modifiedRequest, route, fetches, response, thrown, did, puts,
                   upstream, served, sigVars>>

Next ==
    \/ Receive
    \/ Preflight
    \/ Detect
    \/ CacheMatch
    \/ TokenReply
    \/ Dispatch
    \/ UpstreamReply
    \/ Complete
    \/ PutComplete
    \/ PutLost
    \/ Evict

Spec == Init /\ [][Next]_vars

SpecPair == InitPair /\ [][Next]_vars

----------------------------------------------------------------------------
(* generateSignature on its own: flat objects, reordered and re-signed *)

SigKeys == {"Zone", "sign", "time", "token"}
SigValues == {S("a"), S(SENTINEL), Num(1)}

\* the flat objects with n properties
RECURSIVE SigObjects(_)
SigObjects(n) ==
    IF n = 0 THEN {<<>>}
    ELSE {Append(o, <<k, v>>) :
            o \in SigObjects(n - 1), k \in SigKeys, v \in SigValues}

DistinctKeys(fields) ==
    \A i, j \in 1..Len(fields) : fields[i][1] = fields[j][1] => i = j

InitSig ==
    /\ inbox = <<>>
    /\ pc = "idle"
    /\ PerRequestInit(NoRequest)
    /\ cache = CacheMiss
    /\ puts = <<>>
    /\ served = <<>>
    /\ sigParams \in {o \in UNION {SigObjects(n) : n \in 0..MaxFields} : DistinctKeys(o)}
    /\ sigResult = generateSignature(sigParams)
    /\ sigFirst = [params |-> sigParams, result |-> generateSignature(sigParams)]

\* the same properties, two neighbours inserted in the other order
SwapFields ==
    /\ \E i \in 1..(Len(sigParams) - 1) :
          sigParams' = [sigParams EXCEPT ![i] = sigParams[i + 1],
                                         ![i + 1] = sigParams[i]]
    /\ sigResult' = generateSignature(sigParams')
    /\ UNCHANGED <<pipeVars, sigFirst>>

\* the property named sign is added or given another value
SetSign ==
    /\ \E v \in SigValues : sigParams' = SetField(sigParams, "sign", v)
    /\ sigResult' = generateSignature(sigParams')
    /\ UNCHANGED <<pipeVars, sigFirst>>

\* the property named sign is removed
DropSign ==
    /\ HasKey(sigParams, "sign")
    /\ sigParams' = DeleteField(sigParams, "sign")
    /\ sigResult' = generateSignature(sigParams')
    /\ UNCHANGED <<pipeVars, sigFirst>>

NextSig ==
    \/ SwapFields
    \/ SetSign
    \/ DropSign

SpecSig == InitSig /\ [][NextSig]_vars

----------------------------------------------------------------------------
(* Vocabulary of the properties *)

Finished == pc = "done"

\* the request is past token interception
PastInterception ==
    /\ request # NoRequest
    /\ pc \notin {"preflight", "cacheMatch", "tokenFetch"}

Single(h, name, text) == name \in DOMAIN h /\ h[name] = <<text>>

\* the three CORS headers, each with exactly its value
CorsExact(h) ==
    /\ Single(h, "access-control-allow-origin", T("*"))
    /\ Single(h, "access-control-allow-methods", T("GET, POST, OPTIONS"))
    /\ Single(h, "access-control-allow-headers", T("Content-Type"))

CorsNames ==
    {"access-control-allow-origin", "access-control-allow-methods",
     "access-control-allow-headers"}

JsonWithCors(h) ==
    /\ DOMAIN h = CorsNames \cup {"content-type"}
    /\ CorsExact(h)
    /\ Single(h, "content-type", T("application/json"))

\* the sentinel is in none of the places the interceptor looks at
SentinelNowhere(req) ==
    /\ ~("authorization" \in DOMAIN req.headers
         /\ \E v \in 1..Len(req.headers["authorization"]) :
               Includes(req.headers["authorization"][v], SENTINEL))
    /\ ~("token" \in DOMAIN req.headers /\ req.headers["token"] = <<T(SENTINEL)>>)
    /\ ~(/\ req.method = "POST"
         /\ "content-type" \in DOMAIN req.headers
         /\ \E v \in 1..Len(req.headers["content-type"]) :
               Includes(req.headers["content-type"][v], "application/json")
         /\ BodyIncludesSentinel(req.body))

\* the subrequests sent to one origin
FetchesTo(origin) == SelectSeq(fetches, LAMBDA f : f.url[1] = origin)

----------------------------------------------------------------------------
(* C6 *)

\* C6: an OPTIONS request, whatever its path, headers and body, is answered
\* 200 with an empty body and exactly the CORS headers, and nothing else runs
\* for it: no body read, no cache lookup, no token fetch, no route, no
\* subrequest.
C6_PreflightFirst ==
    (request.method = "OPTIONS") =>
        /\ pc \in {"preflight", "done", "idle"}
        /\ did = {}
        /\ fetches = <<>>
        /\ route = "none"
        /\ bodyText = BodyNone
        /\ credPath = "none"
        /\ pc # "preflight" =>
              /\ response.status = 200
              /\ response.body = BodyNone
              /\ DOMAIN response.headers = CorsNames
              /\ CorsExact(response.headers)

C6_Witness ==
    /\ Finished
    /\ request.method = "OPTIONS"
    /\ request.path = "/simulator/v2/getComponentList"
    /\ request.body = TokenBody
    /\ "authorization" \in DOMAIN request.headers
    /\ cache = CacheMiss

----------------------------------------------------------------------------
(* C2 *)

\* C2: when no real credential is obtained - the sentinel is in none of the
\* checked places, or it was detected, the cache missed and the refresher
\* answered with a non-success status - the request handed to the routes is
\* the inbound request (method, headers, body), and it is routed, not failed.
C2_NoCredentialNoChange ==
    (/\ PastInterception
     /\ request.method # "OPTIONS"
     /\ SentinelNowhere(request) \/ credPath = "miss_fail") =>
        /\ modifiedRequest = request
        /\ realToken = Undefined
        /\ pc # "route" => route # "none"

C2_Witness ==
    /\ Finished
    /\ credPath = "miss_fail"
    /\ request.body = TokenBody
    /\ "token" \in DOMAIN request.headers
    /\ route = "/card/getGameDetail"
    /\ response.status = 200
    /\ Len(fetches) = 2
    /\ fetches[2].body = TokenBody

----------------------------------------------------------------------------
(* C10 *)

BodyParsingRoutes ==
    {"/card/getNewsList", "/card/getNewsGuideDetail", "/simulator/executeScript",
     "/simulator/v2/getComponentList"}

\* the routes that parse the reply as JSON whatever its status, and those
\* that do so after a success status
AlwaysJsonRoutes == {"/card/getGameDetail", "/simulator/executeScript"}

OkJsonRoutes ==
    StaticJsonRoutes
    \cup {"/card/getNewsList", "/card/getNewsGuideDetail",
          "/simulator/v2/getComponentList"}

\* C10: a failure raised after the preflight check - in interception, in a
\* route's body parsing, in a subrequest, in parsing a reply - ends the
\* request with status 500, body {code:500, msg:'Error: <message>'} and the
\* CORS headers; nothing runs after it.
C10_OuterBoundary ==
    /\ thrown # "" =>
          /\ pc \in {"done", "idle"}
          /\ response.status = 500
          /\ response.body =
                Json(Obj(<< <<"code", Num(500)>>,
                            <<"msg", Str(<<"Error: ", thrown>>)>> >>))
          /\ JsonWithCors(response.headers)
    /\ (Truthy(realToken) /\ ReadsBody(request) /\ request.body = Raw(SENTINEL))
          => (thrown # "" /\ route = "none")
    /\ (route \in BodyParsingRoutes /\ ~Parses(modifiedRequest.body))
          => (thrown # "" /\ upstream = NoReply)
    /\ upstream.net = "error" => thrown = FETCH_FAILED
    /\ (/\ upstream.net = "ok"
        /\ ~Parses(upstream.body)
        /\ route \in AlwaysJsonRoutes \/ (route \in OkJsonRoutes /\ Ok(upstream)))
          => thrown # ""

C10_Witness ==
    /\ Finished
    /\ thrown # ""
    /\ route = "none"
    /\ credPath = "hit"
    /\ request.body = Raw(SENTINEL)
    /\ response.status = 500

----------------------------------------------------------------------------
(* C3 *)

\* the string the signature is the digest of, from the set of properties:
\* the names other than sign in sorted order, name=value joined by &, then
\* & and the secret
C3_SignString(params) ==
    LET names == SelectSeq(KeyOrder, LAMBDA k : k # "sign" /\ HasKey(params, k))
    IN Join([i \in 1..Len(names) |->
                <<names[i], "=">> \o Template(GetField(params, names[i]))])
       \o <<"&", GAMEHUB_SECRET_KEY>>

\* C3: generateSignature gives the same result for every insertion order of
\* the fields and whatever the field named sign holds or whether it is there:
\* the lower-case hex digest of the sorted name=value pairs of the other
\* fields joined with &, followed by & and the secret.
C3_OrderIndependent ==
    /\ sigResult = sigFirst.result
    /\ sigResult = <<"hex", C3_SignString(sigParams), "lower">>

C3_Witness ==
    /\ Len(sigParams) = 3
    /\ HasKey(sigParams, "sign")
    /\ ~HasKey(sigFirst.params, "sign")
    /\ sigParams[1][1] = "token"
    /\ sigFirst.params[1][1] = "Zone"
    /\ sigFirst.params[2][1] = "token"

----------------------------------------------------------------------------
(* C4 *)

C4_Manifest == Prop(Parse(upstream.body), "data")

\* the list the manifest holds: data.components, else data.list
C4_AllItems ==
    IF Truthy(Prop(C4_Manifest, "components"))
    THEN Prop(C4_Manifest, "components")[2]
    ELSE Prop(C4_Manifest, "list")[2]

C4_Given(name, default) ==
    LET v == Prop(Parse(request.body), name)
    IN IF v = Undefined THEN default ELSE v[2]

C4_Page == C4_Given("page", 1)
C4_PageSize == C4_Given("page_size", 10)

\* a valid type, a manifest fetched with a list in it, a page and a page
\* size of at least 1
C4_Case ==
    /\ Finished
    /\ route = "/simulator/v2/getComponentList"
    /\ upstream.net = "ok"
    /\ Ok(upstream)
    /\ Parses(upstream.body)
    /\ Truthy(C4_Manifest)
    /\ Truthy(Prop(C4_Manifest, "components")) \/ Truthy(Prop(C4_Manifest, "list"))
    /\ C4_Page >= 1
    /\ C4_PageSize >= 1

C4_Count ==
    Min(C4_PageSize, Max(0, Len(C4_AllItems) - (C4_Page - 1) * C4_PageSize))

C4_Shape(total) ==
    LET data == Prop(Parse(response.body), "data")
    IN /\ response.status = 200
       /\ Prop(data, "list") =
             List([i \in 1..C4_Count |->
                     C4_AllItems[(C4_Page - 1) * C4_PageSize + i]])
       /\ Prop(data, "page") = Num(C4_Page)
       /\ Prop(data, "pageSize") = Num(C4_PageSize)
       /\ Prop(data, "total") = total

\* C4 as claimed: data.total is always the length of the list before slicing
C4_Original == C4_Case => C4_Shape(Num(Len(C4_AllItems)))

\* C4, amended: for a valid type, a manifest with a list of length L and
\* page p >= 1, page_size s >= 1 (absent: 1 and 10), data.list holds the
\* min(s, max(0, L-(p-1)*s)) items at indices (p-1)*s .. (p-1)*s+s-1 that
\* exist, data.page = p, data.pageSize = s, the status is 200, and data.total
\* is the manifest's own data.total when it has a non-zero one, else L.
C4_Amended ==
    C4_Case =>
        C4_Shape(IF Truthy(Prop(C4_Manifest, "total"))
                 THEN Prop(C4_Manifest, "total")
                 ELSE Num(Len(C4_AllItems)))

C4_Witness ==
    /\ C4_Case
    /\ C4_Page = 2
    /\ C4_PageSize = 2
    /\ Len(C4_AllItems) = 3
    /\ Prop(C4_Manifest, "total") = Num(50)
    /\ Prop(Prop(Parse(response.body), "data"), "list") = List(<<Item(3)>>)
    /\ Prop(Prop(Parse(response.body), "data"), "total") = Num(50)

----------------------------------------------------------------------------
(* C5 *)

\* C5: a request that no table row matches and that reaches the fallback
\* proxy issues exactly one subrequest to <static-base><path>; the response
\* has the upstream's status and body, every upstream header that is not
\* overlaid, the three CORS headers, and Cache-Control exactly
\* 'public, max-age=300'.
C5_Fallback ==
    (Finished /\ route = FALLBACK /\ upstream.net = "ok") =>
        /\ Len(FetchesTo(GITHUB_BASE)) = 1
        /\ FetchesTo(GITHUB_BASE)[1].url = <<GITHUB_BASE, request.path>>
        /\ response.status = upstream.status
        /\ response.body = upstream.body
        /\ \A n \in DOMAIN upstream.headers \ (CorsNames \cup {"cache-control"}) :
              n \in DOMAIN response.headers
              /\ response.headers[n] = upstream.headers[n]
        /\ CorsExact(response.headers)
        /\ Single(response.headers, "cache-control", T("public, max-age=300"))

----------------------------------------------------------------------------
(* C7 *)

\* C7: every response the router returns carries the three CORS headers with
\* exactly their values, whatever the upstream sent.
C7_CorsEverywhere == Finished => CorsExact(response.headers)

----------------------------------------------------------------------------
(* C8 *)

C8_InvalidType(body) ==
    LET type == Prop(body, "type")
    IN type = Undefined \/ ~(IsNum(type) /\ type[2] \in 1..7)

\* C8: a POST to /simulator/v2/getComponentList whose body has no type or a
\* type outside 1..7, and a POST to /card/getNewsGuideDetail whose body has
\* no id, are answered 400 with the fixed envelope, and no subrequest goes
\* to the static repository or the news service.
C8_RejectedFirst ==
    (/\ Finished
     /\ request.method = "POST"
     /\ Parses(request.body)
     /\ route # "none"
     /\ \/ /\ request.path = "/simulator/v2/getComponentList"
           /\ C8_InvalidType(Parse(request.body))
        \/ /\ request.path = "/card/getNewsGuideDetail"
           /\ Prop(Parse(request.body), "id") = Undefined) =>
        /\ response.status = 400
        /\ JsonWithCors(response.headers)
        /\ response.body =
              IF request.path = "/simulator/v2/getComponentList"
              THEN Json(Obj(<< <<"code", Num(400)>>,
                               <<"msg", S("Invalid type parameter")>> >>))
              ELSE Json(Obj(<< <<"code", Num(400)>>,
                               <<"msg", S("Missing id parameter")>>,
                               <<"time", Str(<<>>)>>, <<"data", Null>> >>))
        /\ FetchesTo(GITHUB_BASE) = <<>>
        /\ FetchesTo(NEWS_AGGREGATOR_URL) = <<>>

----------------------------------------------------------------------------
(* C9 *)

\* the route's subrequest was answered with a non-success status
C9_Case ==
    /\ Finished
    /\ route \notin {"none", FALLBACK}
    /\ upstream.net = "ok"
    /\ ~Ok(upstream)

C9_NewsListError ==
    /\ response.status = 200
    /\ JsonWithCors(response.headers)
    /\ response.body =
          Json(Obj(<< <<"code", Num(500)>>, <<"msg", S("Failed to fetch news")>>,
                      <<"time", Str(<<>>)>>, <<"data", List(<<>>)>> >>))

C9_NewsDetailError ==
    /\ response.status = 404
    /\ JsonWithCors(response.headers)
    /\ response.body =
          Json(Obj(<< <<"code", Num(404)>>, <<"msg", S("News not found")>>,
                      <<"time", Str(<<>>)>>, <<"data", Null>> >>))

\* {code: 500, msg: <fixed text>} with status 500
C9_Generic500 ==
    /\ response.status = 500
    /\ JsonWithCors(response.headers)
    /\ response.body # upstream.body
    /\ Parses(response.body)
    /\ ObjectKeys(Parse(response.body)[2]) = <<"code", "msg">>
    /\ Prop(Parse(response.body), "code") = Num(500)
    /\ thrown = ""

C9_FixedError ==
    CASE route = "/card/getNewsList" -> C9_NewsListError
      [] route = "/card/getNewsGuideDetail" -> C9_NewsDetailError
      [] OTHER -> C9_Generic500

\* C9 as claimed: on every route with an upstream other than the fallback
C9_Original == C9_Case => C9_FixedError

\* what the two metadata-service routes do with any reply: the reply's JSON
\* with status 200 (getGameDetail without the two stripped fields of data),
\* or the outer 500 when the reply is not JSON
C9_MetadataPassThrough ==
    IF ~Parses(upstream.body)
    THEN response.status = 500 /\ thrown # ""
    ELSE /\ response.status = 200
         /\ JsonWithCors(response.headers)
         /\ thrown = ""
         /\ IF route = "/simulator/executeScript"
               \/ ~IsObj(Prop(Parse(upstream.body), "data"))
            THEN response.body = upstream.body
            ELSE LET sent == Prop(Parse(upstream.body), "data")[2]
                     back == Prop(Parse(response.body), "data")[2]
                 IN /\ back = SelectSeq(sent, LAMBDA f :
                                 f[1] \notin {"recommend_game", "card_line_data"})
                    /\ DeleteField(Parse(response.body)[2], "data")
                          = DeleteField(Parse(upstream.body)[2], "data")

\* C9, amended: on a non-success upstream status /card/getNewsList returns
\* its fixed envelope with an empty data list, /card/getNewsGuideDetail 404
\* with its fixed envelope, and /base/getBaseInfo,
\* /cloud/game/check_user_timer, /game/getDnsIpPool, /game/getSteamHost and
\* /simulator/v2/getComponentList a fixed {code:500, msg} with status 500;
\* /card/getGameDetail and /simulator/executeScript do not look at the
\* status: they return the upstream's JSON with status 200, or the outer
\* 500 'Error: <message>' when the upstream's body is not JSON.
C9_Amended ==
    C9_Case =>
        IF route \in AlwaysJsonRoutes THEN C9_MetadataPassThrough
        ELSE C9_FixedError

C9_Witness ==
    /\ C9_Case
    /\ route = "/card/getGameDetail"
    /\ upstream.status = 404
    /\ response.status = 200
    /\ response.body =
          Json(Obj(<< <<"code", Num(401)>>, <<"msg", S("token invalid")>> >>))

----------------------------------------------------------------------------
(* C1 *)

C1_IsExec(e) ==
    /\ e.request.method = "POST"
    /\ e.request.path = "/simulator/executeScript"

\* the five fields the forwarded body may depend on
C1_Five(e) ==
    LET body == Parse(e.request.body)
    IN <<Prop(body, "gpu_vendor"), Prop(body, "game_type"), Prop(body, "token"),
         Prop(body, "sign"), Prop(body, "time")>>

\* the request was served with the credential service working: either no
\* credential was needed, or the current one was obtained
C1_EnvOk(e) == e.path = "clean" \/ e.cred = TOKEN_A

C1_Outbound(e) == SelectSeq(e.fetches, LAMBDA f : f.url[1] = METADATA_URL)

C1_WellFormed(f) ==
    /\ DOMAIN f.headers = {"content-type"}
    /\ f.headers["content-type"] = <<T("application/json")>>
    /\ Parses(f.body)
    /\ ObjectKeys(Parse(f.body)[2]) =
          <<"gpu_vendor", "gpu_version", "gpu_device_name", "game_type", "token",
            "game_id", "sign", "time", "clientparams", "gpu_system_driver_version">>
    /\ Prop(Parse(f.body), "gpu_version") = Num(0)
    /\ Prop(Parse(f.body), "gpu_device_name") = S("Generic Device")
    /\ Prop(Parse(f.body), "game_id") = S("0")
    /\ Prop(Parse(f.body), "gpu_system_driver_version") = Num(0)
    /\ Prop(Parse(f.body), "clientparams") = S(CLIENTPARAMS)

\* C1: two requests to POST /simulator/executeScript that agree on
\* gpu_vendor, game_type, token, sign and time produce the same outbound
\* request, whatever else differs in their bodies and headers; its body has
\* exactly the ten sanitized keys and its only header is Content-Type.
C1_DependsOnFiveFields ==
    \A i, j \in DOMAIN served :
        (/\ C1_IsExec(served[i]) /\ C1_IsExec(served[j])
         /\ C1_EnvOk(served[i]) /\ C1_EnvOk(served[j])
         /\ C1_Five(served[i]) = C1_Five(served[j])) =>
            /\ C1_Outbound(served[i]) = C1_Outbound(served[j])
            /\ \A k \in DOMAIN C1_Outbound(served[i]) :
                  C1_WellFormed(C1_Outbound(served[i])[k])

----------------------------------------------------------------------------
(* C11 *)

\* a POST with a JSON content type whose body text holds the sentinel and
\* parses, a real credential obtained, and the request handed on
C11_Case ==
    /\ PastInterception
    /\ ReadsBody(request)
    /\ BodyIncludesSentinel(request.body)
    /\ Parses(request.body)
    /\ Truthy(realToken)
    /\ credPath \in {"hit", "miss_ok"}

\* the body handed on is an object whose token is the credential, whose sign
\* is the digest of its own fields other than sign, and whose other fields
\* are the inbound ones, in the inbound order
C11_Resigned ==
    LET sent == Parse(request.body)
        fwd == Parse(modifiedRequest.body)
        rest(fields) == SelectSeq(fields, LAMBDA f : f[1] \notin {"token", "sign"})
    IN /\ Parses(modifiedRequest.body)
       /\ IsObj(fwd)
       /\ Prop(fwd, "token") = realToken
       /\ Prop(fwd, "sign") = <<"hex", C3_SignString(fwd[2]), "lower">>
       /\ IsObj(sent) => rest(fwd[2]) = rest(sent[2])

\* C11 as claimed: for every JSON body that holds the sentinel
C11_Original == C11_Case => C11_Resigned

\* C11, amended: when the inbound JSON body is an object that holds the
\* sentinel and a real credential is obtained, the body handed on is that
\* object with token set to the credential and sign set to the signature of
\* the forwarded object (all fields but sign, after the token was set), every
\* other field unchanged; a JSON array that holds the sentinel is handed on
\* as it came, with no token and no sign.
C11_Amended ==
    C11_Case =>
        IF IsObj(Parse(request.body)) THEN C11_Resigned
        ELSE modifiedRequest.body = request.body

C11_Witness ==
    /\ C11_Case
    /\ credPath = "miss_ok"
    /\ realToken = TOKEN_B
    /\ Prop(Parse(request.body), "token") = S("user-token")
    /\ Prop(Parse(request.body), "source") = Str(<<"my-", SENTINEL>>)
    /\ Prop(Parse(modifiedRequest.body), "token") = TOKEN_B
    /\ Prop(Parse(modifiedRequest.body), "source") = Str(<<"my-", SENTINEL>>)
    /\ Prop(Parse(modifiedRequest.body), "sign") =
          <<"hex", <<"id", "=", "5", "&", "source", "=", "my-", SENTINEL, "&",
                     "token", "=", "real-token-B", "&", GAMEHUB_SECRET_KEY>>,
            "lower">>

----------------------------------------------------------------------------
(* C12 *)

\* the headers of the rewritten request: the first sentinel of Authorization
\* replaced by the credential, the token header set to the credential, the
\* other headers as they came
C12_Headers ==
    /\ DOMAIN modifiedRequest.headers = DOMAIN request.headers
    /\ \A n \in DOMAIN request.headers :
          modifiedRequest.headers[n] =
             CASE n = "authorization" /\ AuthHit(request) ->
                    <<Replace(HeadersGet(request.headers, "Authorization"),
                              SENTINEL, Template(realToken))>>
               [] n = "token" /\ TokenHit(request) -> <<Template(realToken)>>
               [] OTHER -> request.headers[n]

\* C12: when the sentinel is matched in the headers only and a real
\* credential is obtained, the rewritten request has the substituted headers
\* and the inbound body, whatever the method and the Content-Type of a
\* request that has a body.
C12_BodyKept ==
    (/\ PastInterception
     /\ AuthHit(request) \/ TokenHit(request)
     /\ ~BodyIncludesSentinel(ClonedText(request))
     /\ Truthy(realToken)
     /\ credPath \in {"hit", "miss_ok"}
     /\ request.body # BodyNone) =>
        /\ C12_Headers
        /\ modifiedRequest.method = request.method
        /\ modifiedRequest.path = request.path
        /\ modifiedRequest.body = request.body

----------------------------------------------------------------------------
(* C13 *)

\* the request the interceptor hands on, from the inbound request and the
\* credential alone
C13_HandedOn == Substitute(request, ClonedText(request), realToken).request

\* the response of a request whose interception went through, from the
\* request handed on and the reply of the route's upstream alone
C13_Answer ==
    IF upstream.net = "error" THEN ErrorResponse(FETCH_FAILED)
    ELSE LET r == HandlerReply(route, modifiedRequest, upstream)
         IN IF r.kind = "throw" THEN ErrorResponse(r.message) ELSE r.response

\* the request missed the cache and the credential endpoint gave a token
C13_Fetched == credPath = "miss_ok" /\ Truthy(realToken)

\* C13: after a cache miss and a successful credential fetch the request is
\* substituted, dispatched and answered whatever becomes of the cache put
\* (pending, completed, lost): what is handed on, the subrequests and the
\* response are those the request, the credential and the upstream reply
\* determine. A request that follows one whose put was lost and finds no
\* entry calls the credential endpoint first and is served in the same way.
C13_FireAndForget ==
    /\ (/\ C13_Fetched
        /\ pc \in {"route", "upstream", "done"}
        /\ ~(pc = "done" /\ route = "none")) =>
          /\ modifiedRequest = C13_HandedOn
          /\ fetches[1] = TokenFetch
          /\ pc = "route" => Len(fetches) = 1
          /\ pc # "route" =>
                /\ route = MatchRoute(modifiedRequest)
                /\ \E now \in Clock :
                      LET start == HandlerStart(route, modifiedRequest, now)
                      IN CASE start.kind = "respond" ->
                                pc = "done" /\ response = start.response
                           [] start.kind = "throw" ->
                                pc = "done" /\ response = ErrorResponse(start.message)
                           [] OTHER ->
                                /\ fetches = <<TokenFetch, start.fetch>>
                                /\ pc = "done" => response = C13_Answer
    /\ (/\ served # <<>>
        /\ served[Len(served)].path = "miss_ok"
        /\ credPath \in {"miss", "miss_ok", "miss_fail"}) =>
          /\ "cacheMatch" \in did
          /\ fetches # <<>>
          /\ fetches[1] = TokenFetch

C13_Witness ==
    /\ Len(served) = 1
    /\ served[1].path = "miss_ok"
    /\ served[1].cred = TOKEN_A
    /\ cache = CacheMiss
    /\ puts = <<Stringify(TokenData(TOKEN_B))>>
    /\ Finished
    /\ C13_Fetched
    /\ realToken = TOKEN_B
    /\ Prop(Parse(modifiedRequest.body), "token") = TOKEN_B
    /\ response.status = 200
    /\ response = C13_Answer

----------------------------------------------------------------------------
(* C14 *)

\* the step looks the credential up in the cache
C14_LooksUp == "cacheMatch" \in did' /\ "cacheMatch" \notin did

\* the step calls the credential endpoint
C14_CallsEndpoint ==
    Len(SelectSeq(fetches', LAMBDA f : f.url[1] = TOKEN_REFRESHER_URL))
        > Len(FetchesTo(TOKEN_REFRESHER_URL))

\* the step hands a write of the entry to the runtime
C14_Writes == Len(puts') > Len(puts)

C14_Step ==
    \* the cache is looked up only for a request in which the sentinel was
    \* detected
    /\ C14_LooksUp =>
          /\ request.method # "OPTIONS"
          /\ ~SentinelNowhere(request)
    \* the endpoint is called only in the lookup that found no entry
    /\ C14_CallsEndpoint =>
          /\ C14_LooksUp
          /\ cache = CacheMiss
          /\ fetches' = <<TokenFetch>>
    \* the entry is written only when the endpoint has answered a request
    \* that missed with a success status, and what is written is its answer
    /\ C14_Writes =>
          /\ pc = "tokenFetch"
          /\ fetches = <<TokenFetch>>
          /\ credPath = "miss"
          /\ credPath' = "miss_ok"
          /\ puts' = Append(puts, puts'[Len(puts')])
          /\ Parses(puts'[Len(puts')])
          /\ Prop(Parse(puts'[Len(puts')]), "token") = realToken'
    \* a lookup that finds an entry takes its token and calls nothing
    /\ (C14_LooksUp /\ cache # CacheMiss) =>
          /\ credPath' = "hit"
          /\ realToken' = Prop(Parse(cache[2]), "token")
          /\ fetches' = <<>>
    /\ credPath' = "hit" =>
          SelectSeq(fetches', LAMBDA f : f.url[1] = TOKEN_REFRESHER_URL) = <<>>
    \* the entry changes only when a put completes or the substrate drops
    \* it, and no step of a request drops it
    /\ cache' # cache =>
          /\ UNCHANGED <<pc, did, fetches, response, credPath, realToken>>
          /\ \/ cache' = CacheMiss /\ puts' = puts
             \/ \E i \in 1..Len(puts) :
                   cache' = CacheHit(puts[i]) /\ puts' = RemoveAt(puts, i)

\* C14: over any sequence of requests and any timing of the cache writes,
\* the cache is looked up only when the sentinel was detected, the credential
\* endpoint is called only by a request whose lookup missed, the entry is
\* written only after an ok answer of the endpoint, a request whose lookup
\* finds an entry uses its token and does not call the endpoint, and the
\* router never removes the entry.
C14_Lifecycle == [][C14_Step]_vars

C14_Witness ==
    /\ Len(served) = 1
    /\ served[1].path = "miss_ok"
    /\ served[1].cred = TOKEN_B
    /\ cache = CacheHit(Json(TokenData(TOKEN_B)))
    /\ puts = <<>>
    /\ Finished
    /\ credPath = "hit"
    /\ realToken = TOKEN_B
    /\ FetchesTo(TOKEN_REFRESHER_URL) = <<>>
    /\ Prop(Parse(modifiedRequest.body), "token") = TOKEN_B
    /\ response.status = 200

====
